---- MODULE Spec2Model ----
(***************************************************************************)
(* halooglasi-scraper: the crawl orchestrator (server.js, scraper.js) and  *)
(* the rating engine (rater.js) as one state machine.                      *)
(*                                                                         *)
(* Numbers.  An optional numeric field of a listing (price, pricePerSqm,   *)
(* landSqm) is <<>> when JavaScript holds null/undefined and <<v>> when it *)
(* holds the number v.  Values are integers.  A percentile is kept in      *)
(* fixed point, Scale times its value, so that the linear interpolation of *)
(* rater.js is exact; a ratio test `x / m <= t` is the cross-multiplied    *)
(* integer inequality.  IEEE division is correctly rounded and every       *)
(* threshold literal is the double nearest to its decimal, so for values   *)
(* of this size the floating-point test and the exact one agree, also when *)
(* the quotient is exactly the threshold.                                  *)
(***************************************************************************)
EXTENDS Integers, Sequences, FiniteSets, TLC

VARIABLES
  listings,        \* server.js:10  the published (rated) listing set
  scraping,        \* server.js:12  run-in-progress flag
  knownIds,        \* server.js:13
  newIds,          \* server.js:14
  scrapeCount,     \* server.js:15
  scrapeProgress,  \* server.js:16
  listening,       \* the app.listen callback has run (server.js:126)
  runs,            \* the invocations of runScrape/scrapeAll that are suspended at an await
  response,        \* the answer of the latest /api/scrape request
  runsStarted,     \* number of runs that passed the guard of runScrape
  reported,        \* the ids that were in newIds at the end of some finished run
  lastRun,         \* what the latest finished run returned and emitted, until the next run starts
  rin,             \* argument of a stand-alone call of rateListings
  rout,            \* its result
  rpc,             \* "input" before a stand-alone call, "rated" or "computed" after it,
                   \* "idle" when unused
  sorted,          \* first argument of a stand-alone call of percentile
  p,               \* its second argument
  pval             \* its result, times Scale

vars == <<listings, scraping, knownIds, newIds, scrapeCount, scrapeProgress,
          listening, runs, response, runsStarted, reported, lastRun, rin, rout, rpc,
          sorted, p, pval>>

serverVars == <<listings, scraping, knownIds, newIds, scrapeCount, scrapeProgress,
                listening, runs, response, runsStarted, reported, lastRun>>

raterVars == <<rin, rout, rpc, sorted, p, pval>>

(***************************************************************************)
(* Optional numbers and JavaScript truthiness                              *)
(***************************************************************************)
Null == <<>>

Num(v) == <<v>>

\* `x && ...` on a number-or-null: null, 0 (and NaN) are falsy, any other number is truthy
Truthy(x) == x # Null /\ x[1] # 0

\* `x && x > 0`
Positive(x) == Truthy(x) /\ x[1] > 0

Range(s) == {s[k] : k \in DOMAIN s}

SeqsUpTo(S, n) == UNION {[1..k -> S] : k \in 0..n}

Reverse(s) == [k \in 1..Len(s) |-> s[Len(s) + 1 - k]]

(***************************************************************************)
(* rater.js                                                                *)
(***************************************************************************)
\* fixed-point scale of a percentile: the 100 of `p / 100`
Scale == 100

RECURSIVE InsertAsc(_, _)
InsertAsc(xs, x) ==
  IF xs = <<>> THEN <<x>>
  ELSE IF x < Head(xs) THEN <<x>> \o xs
  ELSE <<Head(xs)>> \o InsertAsc(Tail(xs), x)

\* numbers.sort((a, b) => a - b)
RECURSIVE SortAsc(_)
SortAsc(s) ==
  IF s = <<>> THEN <<>>
  ELSE InsertAsc(SortAsc(SubSeq(s, 1, Len(s) - 1)), s[Len(s)])

\* the interpolation with its operands exchanged: sorted[lower] - sorted[upper]
percentileExchanged(xs, q) ==
  IF Len(xs) = 0 THEN 0
  ELSE LET num   == q * (Len(xs) - 1)
           lower == num \div Scale
           frac  == num % Scale
           upper == IF frac = 0 THEN lower ELSE lower + 1
       IN IF lower = upper THEN Scale * xs[lower + 1]
          ELSE Scale * xs[lower + 1] + (xs[lower + 1] - xs[upper + 1]) * frac

\* percentile(sorted, p), times Scale.  idx = p/100 * (n-1); lower = floor(idx),
\* upper = ceil(idx); the fractional part of idx is ((p * (n-1)) % 100) / 100.
percentile(xs, q) ==
  IF Len(xs) = 0 THEN 0
  ELSE LET num   == q * (Len(xs) - 1)
           lower == num \div Scale
           frac  == num % Scale
           upper == IF frac = 0 THEN lower ELSE lower + 1
       IN IF lower = upper THEN Scale * xs[lower + 1]
          ELSE Scale * xs[lower + 1] + (xs[upper + 1] - xs[lower + 1]) * frac

\* `x / m <= t / 100` for an integer x and a percentile m > 0 (m is Scale times its value)
RatioLeq(x, m, t) == x * Scale * 100 <= t * m

\* `x / m < t / 100`
RatioLt(x, m, t) == x * Scale * 100 < t * m

LadderPPSStrict(pps, medianPPS) ==
  IF RatioLt(pps, medianPPS, 40) THEN 10
  ELSE IF RatioLt(pps, medianPPS, 55) THEN 9
  ELSE IF RatioLt(pps, medianPPS, 70) THEN 8
  ELSE IF RatioLt(pps, medianPPS, 85) THEN 7
  ELSE IF RatioLt(pps, medianPPS, 100) THEN 6
  ELSE IF RatioLt(pps, medianPPS, 115) THEN 5
  ELSE IF RatioLt(pps, medianPPS, 130) THEN 4
  ELSE IF RatioLt(pps, medianPPS, 150) THEN 3
  ELSE IF RatioLt(pps, medianPPS, 180) THEN 2
  ELSE 1

\* the ten-step ladder on pricePerSqm / medianPPS (rater.js:59-89)
LadderPPS(pps, medianPPS) ==
  IF RatioLeq(pps, medianPPS, 40) THEN 10
  ELSE IF RatioLeq(pps, medianPPS, 55) THEN 9
  ELSE IF RatioLeq(pps, medianPPS, 70) THEN 8
  ELSE IF RatioLeq(pps, medianPPS, 85) THEN 7
  ELSE IF RatioLeq(pps, medianPPS, 100) THEN 6
  ELSE IF RatioLeq(pps, medianPPS, 115) THEN 5
  ELSE IF RatioLeq(pps, medianPPS, 130) THEN 4
  ELSE IF RatioLeq(pps, medianPPS, 150) THEN 3
  ELSE IF RatioLeq(pps, medianPPS, 180) THEN 2
  ELSE 1

LadderReason(score) ==
  IF score >= 8 THEN "EUR/m2 is N% below median"
  ELSE IF score = 7 THEN "EUR/m2 well below median"
  ELSE IF score = 6 THEN "EUR/m2 slightly below median"
  ELSE IF score = 5 THEN "EUR/m2 near median"
  ELSE IF score = 4 THEN "EUR/m2 above median"
  ELSE IF score = 3 THEN "EUR/m2 well above median"
  ELSE IF score = 2 THEN "EUR/m2 significantly above median"
  ELSE "EUR/m2 far above median"

\* the six tiers with the top of the ten-step ladder: 0.5 -> 9
LadderPriceTall(price, medianPrice) ==
  IF RatioLeq(price, medianPrice, 50) THEN 9
  ELSE IF RatioLeq(price, medianPrice, 75) THEN 7
  ELSE IF RatioLeq(price, medianPrice, 100) THEN 6
  ELSE IF RatioLeq(price, medianPrice, 125) THEN 5
  ELSE IF RatioLeq(price, medianPrice, 150) THEN 4
  ELSE 3

\* the six-tier ladder on price / medianPrice (rater.js:102-108)
LadderPrice(price, medianPrice) ==
  IF RatioLeq(price, medianPrice, 50) THEN 8
  ELSE IF RatioLeq(price, medianPrice, 75) THEN 7
  ELSE IF RatioLeq(price, medianPrice, 100) THEN 6
  ELSE IF RatioLeq(price, medianPrice, 125) THEN 5
  ELSE IF RatioLeq(price, medianPrice, 150) THEN 4
  ELSE 3

Min(a, b) == IF a <= b THEN a ELSE b

Max(a, b) == IF a >= b THEN a ELSE b

withPriceTruthy(ls) == SelectSeq(ls, LAMBDA l : Truthy(l.price))

\* listings.filter(l => l.price && l.price > 0)
withPrice(ls) == SelectSeq(ls, LAMBDA l : Positive(l.price))

\* listings.filter(l => l.pricePerSqm && l.pricePerSqm > 0)
withPPS(ls) == SelectSeq(ls, LAMBDA l : Positive(l.pricePerSqm))

\* neighborhoodStats[name].median: the median pricePerSqm of the area's withPPS
\* listings, Null when the area has none (the key is then absent)
neighborhoodMedian(ls, name) ==
  LET own == SelectSeq(withPPS(ls), LAMBDA l : l.neighborhood = name)
  IN IF own = <<>> THEN Null
     ELSE Num(percentile(SortAsc([k \in DOMAIN own |-> own[k].pricePerSqm[1]]), 50))

\* medianPPS of rater.js:25: null when no listing has a positive pricePerSqm
MedianPPS(ls) ==
  LET w == withPPS(ls)
  IN IF w = <<>> THEN Null
     ELSE Num(percentile(SortAsc([k \in DOMAIN w |-> w[k].pricePerSqm[1]]), 50))

\* medianPrice of rater.js:32 (withPrice is not empty there)
MedianPrice(ls) ==
  LET w == withPrice(ls)
  IN Num(percentile(SortAsc([k \in DOMAIN w |-> w[k].price[1]]), 50))

\* the branch of rater.js:56 / :100 / :110 a listing is scored by
Branch(l, medianPPS, medianPrice) ==
  IF Positive(l.pricePerSqm) /\ Truthy(medianPPS) THEN "pps"
  ELSE IF Truthy(l.price) /\ Truthy(medianPrice) THEN "total"
  ELSE "none"

\* the area-relative bonus of rater.js:92-99 applies
AreaBonus(l, ls) ==
  LET nMedian == neighborhoodMedian(ls, l.neighborhood)
  IN Truthy(nMedian) /\ RatioLeq(l.pricePerSqm[1], nMedian[1], 60)

\* the land bonus of rater.js:115-121 applies
LandBonus(l) ==
  /\ Truthy(l.landSqm)
  /\ l.landSqm[1] > 500
  /\ Truthy(l.price)
  /\ l.price[1] < 100 * l.landSqm[1]

LabelAboveNine(score) == IF score > 9 THEN "MUST BUY" ELSE ""

\* rater.js:125
Label(score) == IF score >= 9 THEN "MUST BUY" ELSE ""

\* the body of listings.map(listing => ...) of rater.js:52-134
rateOne(l, ls) ==
  LET medianPPS   == MedianPPS(ls)
      medianPrice == MedianPrice(ls)
      branch      == Branch(l, medianPPS, medianPrice)
      base        == IF branch = "pps" THEN LadderPPS(l.pricePerSqm[1], medianPPS[1])
                     ELSE IF branch = "total" THEN LadderPrice(l.price[1], medianPrice[1])
                     ELSE 5
      area        == branch = "pps" /\ AreaBonus(l, ls)
      s1          == IF area THEN Min(10, base + 1) ELSE base
      land        == LandBonus(l)
      s2          == IF land THEN Min(10, s1 + 1) ELSE s1
      score       == Max(1, Min(10, s2))
      reasons     == (IF branch = "pps" THEN <<LadderReason(base)>>
                      ELSE IF branch = "total" THEN <<"Rated by total price (no m2 data)">>
                      ELSE <<"Insufficient price data">>)
                     \o (IF area THEN <<"Best price in area">> ELSE <<>>)
                     \o (IF land THEN <<"Large land at low price">> ELSE <<>>)
  IN [rating       |-> score,
      label        |-> Label(score),
      ratingReason |-> reasons,
      medianPPS    |-> IF medianPPS = Null THEN 0 ELSE (medianPPS[1] + Scale \div 2) \div Scale]
     @@ l

compareRatedAscending(a, b) ==
  IF b.rating # a.rating THEN a.rating - b.rating
  ELSE IF Truthy(a.pricePerSqm) /\ Truthy(b.pricePerSqm)
       THEN a.pricePerSqm[1] - b.pricePerSqm[1]
  ELSE IF Truthy(a.price) /\ Truthy(b.price) THEN a.price[1] - b.price[1]
  ELSE 0

\* the comparator of rated.sort (rater.js:137-142)
compareRated(a, b) ==
  IF b.rating # a.rating THEN b.rating - a.rating
  ELSE IF Truthy(a.pricePerSqm) /\ Truthy(b.pricePerSqm)
       THEN a.pricePerSqm[1] - b.pricePerSqm[1]
  ELSE IF Truthy(a.price) /\ Truthy(b.price) THEN a.price[1] - b.price[1]
  ELSE 0

(***************************************************************************)
(* Array.prototype.sort as Node's V8 runs it on an array shorter than 64:  *)
(* the leading run is found (and reversed when strictly descending), then  *)
(* the remaining elements are placed by binary insertion.  With a          *)
(* consistent comparator this is the stable sort ECMAScript requires.      *)
(***************************************************************************)
RECURSIVE RunLength(_, _, _)
RunLength(s, descending, k) ==
  IF k < Len(s)
  THEN LET order == compareRated(s[k + 1], s[k])
       IN IF (descending /\ order >= 0) \/ (~descending /\ order < 0) THEN k
          ELSE RunLength(s, descending, k + 1)
  ELSE k

RECURSIVE BinarySearch(_, _, _, _)
BinarySearch(s, pivot, left, right) ==
  IF left < right
  THEN LET mid   == left + ((right - left) \div 2)
           order == compareRated(pivot, s[mid + 1])
       IN IF order < 0 THEN BinarySearch(s, pivot, left, mid)
          ELSE BinarySearch(s, pivot, mid + 1, right)
  ELSE left

RECURSIVE BinaryInsertionSort(_, _)
BinaryInsertionSort(s, start) ==
  IF start < Len(s)
  THEN LET pivot == s[start + 1]
           left  == BinarySearch(s, pivot, 0, start)
       IN BinaryInsertionSort(SubSeq(s, 1, left) \o <<pivot>> \o SubSeq(s, left + 1, start)
                                \o SubSeq(s, start + 2, Len(s)),
                              start + 1)
  ELSE s

sortRated(s) ==
  IF Len(s) < 2 THEN s
  ELSE LET descending == compareRated(s[2], s[1]) < 0
           n          == RunLength(s, descending, 2)
           run        == IF descending THEN Reverse(SubSeq(s, 1, n)) ELSE SubSeq(s, 1, n)
       IN BinaryInsertionSort(run \o SubSeq(s, n + 1, Len(s)), n)

NoDataReason == <<"No price data available for comparison">>

\* rateListings(listings) before the sort: the early returns and the map
ratedUnsorted(ls) ==
  IF withPrice(ls) = <<>>
  THEN [k \in DOMAIN ls |->
          [rating |-> 5, label |-> "", ratingReason |-> NoDataReason] @@ ls[k]]
  ELSE [k \in DOMAIN ls |-> rateOne(ls[k], ls)]

rateListings(ls) ==
  IF Len(ls) = 0 THEN <<>>
  ELSE IF withPrice(ls) = <<>> THEN ratedUnsorted(ls)
  ELSE sortRated(ratedUnsorted(ls))

(***************************************************************************)
(* scraper.js                                                              *)
(***************************************************************************)
\* how many areas of the list of scraper.js:6-15 the model crawls, from its head
NumAreas == 2

\* the largest page count and page number a page of the site declares
MaxPages == 3

\* the most listing elements the site serves during one run, over all its pages
MaxItems == 2

\* the runs that may start
MaxRuns == 3

AreaNames == <<"Lestane", "Bolec", "Vinca", "Kaludjerica", "Grocka", "Vozdovac",
               "Barajevo", "Zvezdara">>

NEIGHBORHOODS == [k \in 1..Min(NumAreas, Len(AreaNames)) |-> [name |-> AreaNames[k]]]

\* The listing elements a page of the site may hold, as parseListings reads them
\* (scraper.js:61-105) before its filter: the data-id, the title, the parsed price;
\* the last one has neither title nor price.  The other fields are absent on the
\* pages of the model.
RawItems ==
  [id : {"", "a", "b"}, title : {"kuca"}, price : {Num(100)},
   pricePerSqm : {Null}, sqm : {Null}, landSqm : {Null}]
  \cup [id : {"a"}, title : {""}, price : {Null},
        pricePerSqm : {Null}, sqm : {Null}, landSqm : {Null}]

\* A fetched page: its listing elements in document order, the embedded
\* "TotalPages" count when there is one, and the page numbers its page= links and
\* its pagination elements show.
Pages(room) ==
  [items : SeqsUpTo(RawItems, room),
   jsonTotal : {Num(n) : n \in 0..MaxPages}, hrefPages : {{}}, textPages : {{}}]
  \cup [items : SeqsUpTo(RawItems, room),
        jsonTotal : {Null}, hrefPages : {{}, {MaxPages}}, textPages : {{}}]

SetMax(S) == CHOOSE m \in S : \A x \in S : x <= m

\* Math.round(price / sqm) for positive operands
RoundDiv(a, b) == (2 * a + b) \div (2 * b)

\* scraper.js:108-111
calculatedPPS(item) ==
  IF ~Truthy(item.pricePerSqm) /\ Truthy(item.price) /\ Truthy(item.sqm) /\ item.sqm[1] > 0
  THEN Num(RoundDiv(item.price[1], item.sqm[1]))
  ELSE item.pricePerSqm

\* parseListings(html, neighborhood): an element with neither title nor price is
\* dropped (scraper.js:113).  `at` is not a field of the program: it names the
\* object, by the area, page and position it was parsed at.
parseListings(html, neighborhood, area, page) ==
  LET made == [k \in DOMAIN html.items |->
                 [id           |-> html.items[k].id,
                  title        |-> html.items[k].title,
                  price        |-> html.items[k].price,
                  pricePerSqm  |-> calculatedPPS(html.items[k]),
                  landSqm      |-> html.items[k].landSqm,
                  neighborhood |-> neighborhood.name,
                  at           |-> <<area, page, k>>]]
  IN SelectSeq(made, LAMBDA l : l.title # "" \/ Truthy(l.price))

\* getTotalPages(html) (scraper.js:135-162)
getTotalPages(html) ==
  IF html.jsonTotal # Null THEN html.jsonTotal[1]
  ELSE SetMax({1} \cup html.hrefPages \cup html.textPages)

RECURSIVE DedupFrom(_, _)
DedupFrom(ls, seen) ==
  IF ls = <<>> THEN <<>>
  ELSE IF Head(ls).id = "" \/ Head(ls).id \in seen THEN DedupFrom(Tail(ls), seen)
  ELSE <<Head(ls)>> \o DedupFrom(Tail(ls), seen \cup {Head(ls).id})

RECURSIVE DedupKeepingEmpty(_, _)
DedupKeepingEmpty(ls, seen) ==
  IF ls = <<>> THEN <<>>
  ELSE IF Head(ls).id \in seen THEN DedupKeepingEmpty(Tail(ls), seen)
  ELSE <<Head(ls)>> \o DedupKeepingEmpty(Tail(ls), seen \cup {Head(ls).id})

\* the filter without its `!l.id` test
deduplicateKeepsEmpty(ls) == DedupKeepingEmpty(ls, {})

\* the scan starts at the second listing
deduplicateSkipsFirst(ls) == IF ls = <<>> THEN <<>> ELSE DedupFrom(Tail(ls), {})

deduplicateKeepsLast(ls) == Reverse(DedupFrom(Reverse(ls), {}))

\* deduplicate(listings) (scraper.js:190-197)
deduplicate(ls) == DedupFrom(ls, {})

(***************************************************************************)
(* server.js: the state after the module is loaded                         *)
(***************************************************************************)
IdleProgress == [current |-> 0, total |-> Len(NEIGHBORHOODS), currentName |-> ""]

\* lastRun while no finished run is on record
NoRun == [n |-> 0, completed |-> FALSE, raw |-> <<>>, crawl |-> <<>>, events |-> <<>>,
          log |-> <<>>, totalPages |-> 1, failed |-> {}, knownBefore |-> {},
          reportedBefore |-> {}]

ServerInit ==
  /\ listings = <<>>
  /\ scraping = FALSE
  /\ knownIds = {}
  /\ newIds = {}
  /\ scrapeCount = 0
  /\ scrapeProgress = IdleProgress
  /\ listening = FALSE
  /\ runs = <<>>
  /\ response = "none"
  /\ runsStarted = 0
  /\ reported = {}
  /\ lastRun = NoRun

Init ==
  /\ ServerInit
  /\ rin = <<>>
  /\ rout = <<>>
  /\ rpc = "idle"
  /\ sorted = <<>>
  /\ p = 0
  /\ pval = 0

(***************************************************************************)
(* runScrape (server.js:76-121) up to its first await: the guard, the flag *)
(* and the first fetch of the first area, which scrapeAll -> scrape-       *)
(* Neighborhood -> fetchPage issue before control returns to the caller.   *)
(*                                                                         *)
(* A suspended run is a record: pc (the await it is suspended at), i, page *)
(* and totalPages (the loop variables of scraper.js:202 and :174),         *)
(* areaListings and allListings (the allListings of scrapeNeighborhood and *)
(* of scrapeAll).  The other fields observe the run: served (listing       *)
(* elements received), gap (the delays elapsed since the last fetch was    *)
(* issued), log (the fetches of the current area), failed (the areas whose *)
(* first fetch failed), events (the progress events emitted), knownBefore  *)
(* and reportedBefore (knownIds and reported when the run started).        *)
(***************************************************************************)
BusyNever == FALSE

\* the guard of server.js:77
Busy == scraping

NewRun ==
  [pc |-> "fetch", i |-> 0, page |-> 1, totalPages |-> 1, areaListings |-> <<>>,
   allListings |-> <<>>, served |-> 0, gap |-> <<>>, log |-> <<>>, failed |-> {},
   events |-> <<>>, knownBefore |-> knownIds, reportedBefore |-> reported,
   n |-> runsStarted + 1]

\* runScrape() called while it returns at once
RunScrapeRejected ==
  /\ Busy
  /\ UNCHANGED <<listings, scraping, knownIds, newIds, scrapeCount, scrapeProgress,
                 runs, runsStarted, reported, lastRun>>

\* runScrape() called while it starts a run
RunScrapeStarted ==
  /\ ~Busy
  /\ runsStarted < MaxRuns
  /\ scraping' = TRUE
  /\ scrapeProgress' = [current |-> 0, total |-> Len(NEIGHBORHOODS),
                        currentName |-> NEIGHBORHOODS[1].name]
  /\ runs' = Append(runs, NewRun)
  /\ runsStarted' = runsStarted + 1
  /\ lastRun' = NoRun
  /\ UNCHANGED <<listings, knownIds, newIds, scrapeCount, reported>>

runScrape == RunScrapeRejected \/ RunScrapeStarted

\* the app.listen callback (server.js:126-138): the initial run, then the timer is set
Listen ==
  /\ ~listening
  /\ listening' = TRUE
  /\ runScrape
  /\ UNCHANGED <<response, raterVars>>

\* one tick of setInterval (server.js:135-137)
TimerTick ==
  /\ listening
  /\ runScrape
  /\ UNCHANGED <<listening, response, raterVars>>

\* GET /api/scrape (server.js:35-41)
ApiScrape ==
  /\ listening
  /\ IF scraping
     THEN /\ response' = "already_scraping"
          /\ UNCHANGED <<listings, scraping, knownIds, newIds, scrapeCount, scrapeProgress,
                         runs, runsStarted, reported, lastRun>>
     ELSE /\ runScrape
          /\ response' = "started"
  /\ UNCHANGED <<listening, raterVars>>

(***************************************************************************)
(* scrapeAll and scrapeNeighborhood (scraper.js:164-225), one action per   *)
(* resumption of the suspended run: a fetch that settles, a delay that     *)
(* elapses.  Each action runs to the next await.                           *)
(***************************************************************************)
PageDelayMs == 800

AreaDelayMs == 500

RemoveAt(s, r) == SubSeq(s, 1, r - 1) \o SubSeq(s, r + 1, Len(s))

FreshIdsAll(rated, known) == {id \in {rated[k].id : k \in DOMAIN rated} : id # ""}

\* the ids server.js:100-105 adds to newIds
FreshIds(rated, known) ==
  {id \in {rated[k].id : k \in DOMAIN rated} : id # "" /\ id \notin known}

ProgressEventFromZero(i, unique) ==
  [current |-> i, total |-> Len(NEIGHBORHOODS), currentName |-> NEIGHBORHOODS[i + 1].name,
   listings |-> unique]

\* the argument of onProgress (scraper.js:209-214)
ProgressEvent(i, unique) ==
  [current |-> i + 1, total |-> Len(NEIGHBORHOODS),
   currentName |-> NEIGHBORHOODS[i + 1].name, listings |-> unique]

ConcatDropsEarlier(collected, pageListings) == pageListings

\* allListings.concat(pageListings) (scraper.js:180, :205)
Concat(collected, pageListings) == collected \o pageListings

\* the loop stops one page early
MorePagesExclusive(page, totalPages) == page < totalPages

\* the loop condition of scraper.js:174
MorePages(page, totalPages) == page <= totalPages

fetchPageRethrows == FALSE

\* fetchPage turns every failure into null (scraper.js:45-52)
fetchPageCatches == TRUE

\* the flag and the snapshot are reset only where the try block ends normally
AfterRunOnSuccessOnly(ok) ==
  IF ok THEN [scraping |-> FALSE, scrapeProgress |-> IdleProgress]
  ELSE [scraping |-> scraping, scrapeProgress |-> scrapeProgress]

\* the finally block of runScrape (server.js:117-120), after a run that ended
\* normally (ok) or with an error
AfterRun(ok) == [scraping |-> FALSE, scrapeProgress |-> IdleProgress]

\* what is kept of a run that has ended
Ended(u, completed, raw, all, events) ==
  [n |-> u.n, completed |-> completed, raw |-> raw, crawl |-> all, events |-> events,
   log |-> u.log, totalPages |-> u.totalPages, failed |-> u.failed,
   knownBefore |-> u.knownBefore, reportedBefore |-> u.reportedBefore]

\* scrapeNeighborhood has returned u.areaListings for area u.i: the rest of the
\* loop body of scrapeAll (scraper.js:205-219) with the progress callback of
\* server.js:83-94 and, after the last area, the return of scrapeAll and the rest
\* of runScrape (server.js:96-119).
EndArea(r, u) ==
  LET all    == Concat(u.allListings, u.areaListings)
      unique == deduplicate(all)
      event  == ProgressEvent(u.i, unique)
      events == Append(u.events, event)
  IN IF u.i < Len(NEIGHBORHOODS) - 1
     THEN /\ runs' = [runs EXCEPT ![r] = [u EXCEPT !.pc = "areaDelay", !.allListings = all,
                                                   !.events = events]]
          /\ scrapeProgress' = [current |-> event.current, total |-> event.total,
                                currentName |-> event.currentName]
          /\ listings' = rateListings(event.listings)
          /\ UNCHANGED <<scraping, knownIds, newIds, scrapeCount, runsStarted, reported,
                         lastRun>>
     ELSE LET raw   == deduplicate(all)
              rated == rateListings(raw)
              fresh == FreshIds(rated, knownIds)
          IN /\ runs' = RemoveAt(runs, r)
             /\ newIds' = fresh
             /\ knownIds' = knownIds \cup fresh
             /\ listings' = rated
             /\ scrapeCount' = scrapeCount + 1
             /\ scraping' = AfterRun(TRUE).scraping
             /\ scrapeProgress' = AfterRun(TRUE).scrapeProgress
             /\ reported' = reported \cup fresh
             /\ lastRun' = Ended(u, TRUE, raw, all, events)
             /\ UNCHANGED runsStarted

\* an error leaves scrapeAll: the catch and the finally of runScrape (server.js:115-120)
Abort(r, u) ==
  /\ runs' = RemoveAt(runs, r)
  /\ scraping' = AfterRun(FALSE).scraping
  /\ scrapeProgress' = AfterRun(FALSE).scrapeProgress
  /\ lastRun' = Ended(u, FALSE, <<>>, u.allListings, u.events)
  /\ UNCHANGED <<listings, knownIds, newIds, scrapeCount, runsStarted, reported>>

Suspended == <<listings, scraping, knownIds, newIds, scrapeCount, scrapeProgress,
               runsStarted, reported, lastRun>>

\* fetchPage resolves with the text of a page (scraper.js:46-48)
FetchOk(r, html) ==
  /\ runs[r].pc = "fetch"
  /\ LET u0     == runs[r]
         parsed == parseListings(html, NEIGHBORHOODS[u0.i + 1], u0.i + 1, u0.page)
         entry  == [page |-> u0.page, ok |-> TRUE, listings |-> parsed, gap |-> u0.gap]
         u1     == [u0 EXCEPT !.served = @ + Len(html.items), !.log = Append(@, entry),
                              !.gap = <<>>]
     IN IF u0.page = 1
        THEN LET u2 == [u1 EXCEPT !.areaListings = parsed,
                                  !.totalPages = getTotalPages(html)]
             IN IF MorePages(2, u2.totalPages)
                THEN /\ runs' = [runs EXCEPT ![r] = [u2 EXCEPT !.page = 2]]
                     /\ UNCHANGED Suspended
                ELSE EndArea(r, u2)
        ELSE /\ runs' = [runs EXCEPT ![r] =
                           [u1 EXCEPT !.areaListings = Concat(@, parsed),
                                      !.pc = "pageDelay"]]
             /\ UNCHANGED Suspended
  /\ UNCHANGED <<listening, response, raterVars>>

\* the fetch fails: a network error, a timeout, a status that is not 2xx
\* (scraper.js:47, 49-52); an empty body is as falsy as null to the callers
FetchFail(r) ==
  /\ runs[r].pc = "fetch"
  /\ LET u0    == runs[r]
         entry == [page |-> u0.page, ok |-> FALSE, listings |-> <<>>, gap |-> u0.gap]
         u1    == [u0 EXCEPT !.log = Append(@, entry), !.gap = <<>>,
                             !.failed = IF u0.page = 1 THEN @ \cup {u0.i + 1} ELSE @]
     IN IF ~fetchPageCatches
        THEN Abort(r, u1)
        ELSE IF u0.page = 1
        THEN EndArea(r, [u1 EXCEPT !.areaListings = <<>>])
        ELSE /\ runs' = [runs EXCEPT ![r] = [u1 EXCEPT !.pc = "pageDelay"]]
             /\ UNCHANGED Suspended
  /\ UNCHANGED <<listening, response, raterVars>>

\* the 800 ms timer of scraper.js:183 fires: page++, then the next fetch or the return
PageDelay(r) ==
  /\ runs[r].pc = "pageDelay"
  /\ LET u1 == [runs[r] EXCEPT !.page = @ + 1, !.gap = Append(@, PageDelayMs)]
     IN IF MorePages(u1.page, u1.totalPages)
        THEN /\ runs' = [runs EXCEPT ![r] = [u1 EXCEPT !.pc = "fetch"]]
             /\ UNCHANGED Suspended
        ELSE EndArea(r, u1)
  /\ UNCHANGED <<listening, response, raterVars>>

\* the 500 ms timer of scraper.js:218 fires: i++, the first fetch of the next area
AreaDelay(r) ==
  /\ runs[r].pc = "areaDelay"
  /\ runs' = [runs EXCEPT ![r] = [@ EXCEPT !.pc = "fetch", !.i = @ + 1, !.page = 1,
                                           !.totalPages = 1, !.areaListings = <<>>,
                                           !.log = <<>>, !.gap = Append(@, AreaDelayMs)]]
  /\ UNCHANGED Suspended
  /\ UNCHANGED <<listening, response, raterVars>>

FetchOkStep ==
  \E r \in DOMAIN runs : \E html \in Pages(MaxItems - runs[r].served) : FetchOk(r, html)

FetchFailStep == \E r \in DOMAIN runs : FetchFail(r)

PageDelayStep == \E r \in DOMAIN runs : PageDelay(r)

AreaDelayStep == \E r \in DOMAIN runs : AreaDelay(r)

Next ==
  \/ Listen
  \/ TimerTick
  \/ ApiScrape
  \/ FetchOkStep
  \/ FetchFailStep
  \/ PageDelayStep
  \/ AreaDelayStep

Spec == Init /\ [][Next]_vars

(***************************************************************************)
(* The same system with errors and with the scheduling of the event loop.  *)
(* Raise: the code that runs when a suspended run is resumed throws (the   *)
(* parser, the progress callback or a rating pass); the error leaves       *)
(* scrapeAll and reaches the catch of runScrape.  Fairness: a fetch        *)
(* settles (fetchPage has a 15 s timeout) and a timer fires, so a          *)
(* suspended run is resumed.                                               *)
(***************************************************************************)
Raise(r) ==
  /\ Abort(r, runs[r])
  /\ UNCHANGED <<listening, response, raterVars>>

RaiseStep == \E r \in DOMAIN runs : Raise(r)

\* the most listing elements one page holds here: when a run ends does not
\* depend on what its pages list
LiveItems == 0

FetchOkLiveStep ==
  \E r \in DOMAIN runs :
    \E html \in Pages(Min(LiveItems, MaxItems - runs[r].served)) : FetchOk(r, html)

\* a suspended run is resumed
Resume == FetchOkLiveStep \/ FetchFailStep \/ PageDelayStep \/ AreaDelayStep \/ RaiseStep

NextLive ==
  \/ Listen
  \/ TimerTick
  \/ ApiScrape
  \/ FetchOkLiveStep
  \/ FetchFailStep
  \/ PageDelayStep
  \/ AreaDelayStep
  \/ RaiseStep

SpecLive == Init /\ [][NextLive]_vars /\ WF_vars(Resume)

(***************************************************************************)
(* rateListings on its own: the argument is drawn from three families of   *)
(* listings, the call is one step.  A listing's id is its position in the  *)
(* argument, as in a deduplicated set.                                     *)
(***************************************************************************)
\* the longest argument
MaxLen == 3

\* listings of one area, with and without pricePerSqm, price and a large plot
GeneralKinds ==
  [neighborhood : {"Lestane"}, pricePerSqm : {Null, Num(4), Num(5)},
   price : {Null, Num(100), Num(200), Num(300)}, landSqm : {Null, Num(600)}]

\* listings of two areas that all have a positive pricePerSqm
PerSqmKinds ==
  [neighborhood : {"Lestane", "Bolec"}, pricePerSqm : {Num(2), Num(5)},
   price : {Null, Num(100)}, landSqm : {Null, Num(600)}]

\* listings whose price is absent, zero or negative, beside one usable price
UnusableKinds ==
  [neighborhood : {"Lestane"}, pricePerSqm : {Null, Num(5)},
   price : {Null, Num(0), Num(-100), Num(100)}, landSqm : {Null, Num(600)}]

\* the longest argument drawn from MixedKinds
MaxMixed == 6

\* four listings of one area that the comparator of rater.js:137-142 orders by
\* pricePerSqm in some pairs and by price in others
MixedKinds ==
  {[neighborhood |-> "Lestane", pricePerSqm |-> Num(4), price |-> Num(300), landSqm |-> Null],
   [neighborhood |-> "Lestane", pricePerSqm |-> Num(5), price |-> Num(100), landSqm |-> Num(600)],
   [neighborhood |-> "Lestane", pricePerSqm |-> Null, price |-> Num(200), landSqm |-> Null],
   [neighborhood |-> "Lestane", pricePerSqm |-> Null, price |-> Num(200), landSqm |-> Num(600)]}

WithIds(kinds) == [k \in DOMAIN kinds |-> [id |-> ToString(k)] @@ kinds[k]]

RateInputs ==
  {WithIds(kinds) : kinds \in SeqsUpTo(GeneralKinds, MaxLen)
                              \cup SeqsUpTo(PerSqmKinds, MaxLen)
                              \cup SeqsUpTo(UnusableKinds, MaxLen)
                              \cup SeqsUpTo(MixedKinds, MaxMixed)}

InitRate ==
  /\ ServerInit
  /\ rin \in RateInputs
  /\ rout = <<>>
  /\ rpc = "input"
  /\ sorted = <<>>
  /\ p = 0
  /\ pval = 0

\* rated = rateListings(rin)
Rate ==
  /\ rpc = "input"
  /\ rout' = rateListings(rin)
  /\ rpc' = "rated"
  /\ UNCHANGED <<rin, sorted, p, pval, serverVars>>

SpecRate == InitRate /\ [][Rate]_vars

(***************************************************************************)
(* percentile on its own: an ascending sequence of numbers and an integer  *)
(* percent, the call is one step.                                          *)
(***************************************************************************)
\* the longest sequence of numbers
MaxSorted == 4

\* the numbers of the sequences
SampleValues == {-3, 0, 2, 7}

Ascending(xs) == \A j, k \in DOMAIN xs : j < k => xs[j] <= xs[k]

InitPercentile ==
  /\ ServerInit
  /\ rin = <<>>
  /\ rout = <<>>
  /\ rpc = "input"
  /\ sorted \in {xs \in SeqsUpTo(SampleValues, MaxSorted) : Ascending(xs)}
  /\ p \in 0..100
  /\ pval = 0

\* pval = percentile(sorted, p)
Percentile ==
  /\ rpc = "input"
  /\ pval' = percentile(sorted, p)
  /\ rpc' = "computed"
  /\ UNCHANGED <<rin, rout, sorted, p, serverVars>>

SpecPercentile == InitPercentile /\ [][Percentile]_vars

(***************************************************************************)
(* Properties of the crawl (specification Spec)                            *)
(***************************************************************************)
N == Len(NEIGHBORHOODS)

\* crawl order: area, then page, then position on the page
AtLeq(x, y) ==
  \/ x[1] < y[1]
  \/ x[1] = y[1] /\ x[2] < y[2]
  \/ x[1] = y[1] /\ x[2] = y[2] /\ x[3] <= y[3]

\* the listings of `all` that areas 1..k contributed
CrawlUpTo(all, k) == SelectSeq(all, LAMBDA l : l.at[1] <= k)

\* the listings of `all` that area a contributed
Contribution(all, a) == SelectSeq(all, LAMBDA l : l.at[1] = a)

IdsIn(S) == {S[k].id : k \in DOMAIN S} \ {""}

\* S holds one listing per id of the crawl C, and it is the first object with that id
EarliestWins(S, C) ==
  /\ \A j, k \in DOMAIN S : j # k => S[j].id # S[k].id
  /\ \A k \in DOMAIN S :
       /\ S[k] \in Range(C)
       /\ \A c \in Range(C) : c.id = S[k].id => AtLeq(S[k].at, c.at)
  /\ \A c \in Range(C) : c.id # "" => \E k \in DOMAIN S : S[k].id = c.id

\* C1: at most one run is active; while one is, a start request (the listen
\* callback, a timer tick, GET /api/scrape) changes nothing of the run or of the
\* server's data and /api/scrape answers already_scraping; a run only ever starts
\* in the step of a start request made while no run is active (nothing is queued).
C1_SingleRun ==
  [][/\ Len(runs') <= 1
     /\ scraping' <=> (Len(runs') = 1)
     /\ (scraping /\ (Listen \/ TimerTick \/ ApiScrape))
          => UNCHANGED <<runs, listings, scraping, knownIds, newIds, scrapeCount,
                         scrapeProgress, runsStarted, lastRun>>
     /\ (scraping /\ ApiScrape) => response' = "already_scraping"
     /\ (Len(runs') > Len(runs))
          => /\ ~scraping
             /\ Listen \/ TimerTick \/ ApiScrape
             /\ runsStarted' = runsStarted + 1]_vars

\* a request was rejected while a run was in its second area, and the run goes on
C1_Witness ==
  /\ response = "already_scraping"
  /\ Len(runs) = 1
  /\ runs[1].i = 1
  /\ runs[1].pc = "fetch"
  /\ scrapeCount = 1

\* C2: the listing set of every progress event and the set scrapeAll returns hold
\* at most one listing per id, the first object with that id in crawl order (area,
\* page, position), whole and unchanged.
C2_EarliestInstanceWins ==
  /\ \A r \in DOMAIN runs : \A k \in DOMAIN runs[r].events :
       EarliestWins(runs[r].events[k].listings, CrawlUpTo(runs[r].allListings, k))
  /\ lastRun.completed =>
       /\ \A k \in DOMAIN lastRun.events :
            EarliestWins(lastRun.events[k].listings, CrawlUpTo(lastRun.crawl, k))
       /\ EarliestWins(lastRun.raw, lastRun.crawl)

\* a finished run that met one id in both areas
C2_Witness ==
  /\ lastRun.completed
  /\ \E c, d \in Range(lastRun.crawl) : c.id = d.id /\ c.id # "" /\ c.at[1] < d.at[1]
  /\ Len(lastRun.raw) = 1

EventShape(e, k) ==
  e.current = k /\ e.total = N /\ e.currentName = AreaNames[k]

\* C3: a run emits exactly one progress event per area, after the crawl of the
\* area and before the first fetch of the next one; the k-th event carries
\* current = k, total = the number of areas and the name of the k-th area, and the
\* server's progress snapshot follows it.
C3_OneEventPerArea ==
  /\ \A r \in DOMAIN runs :
       /\ Len(runs[r].events) = IF runs[r].pc = "areaDelay" THEN runs[r].i + 1 ELSE runs[r].i
       /\ \A k \in DOMAIN runs[r].events : EventShape(runs[r].events[k], k)
  /\ Len(runs) = 1 => /\ scrapeProgress.current = Len(runs[1].events)
                      /\ scrapeProgress.total = N
  /\ lastRun.completed =>
       /\ Len(lastRun.events) = N
       /\ \A k \in DOMAIN lastRun.events : EventShape(lastRun.events[k], k)

\* a finished run whose first area yielded nothing and whose second did
C3_Witness ==
  /\ lastRun.completed
  /\ lastRun.events[1].listings = <<>>
  /\ lastRun.events[N].listings # <<>>

\* what a run or a finished run shows of an area whose first fetch failed
FailedAreaIsEmpty(failed, all, events) ==
  \A a \in failed :
    /\ Contribution(all, a) = <<>>
    /\ a \in DOMAIN events
    /\ events[a].listings = IF a = 1 THEN <<>> ELSE events[a - 1].listings

\* C4: when the first fetch of an area fails the area contributes no listing, no
\* other page of it is fetched, the event of the area is emitted with the set of
\* the areas before it, and the run goes on to the next area and completes.
C4_FirstPageFailure ==
  /\ \A r \in DOMAIN runs :
       LET u == runs[r]
       IN /\ (u.log # <<>> /\ ~u.log[1].ok)
               => Len(u.log) = 1 /\ u.pc = "areaDelay" /\ u.areaListings = <<>>
          /\ FailedAreaIsEmpty(u.failed, u.allListings, u.events)
  /\ lastRun.n > 0 =>
       /\ lastRun.completed
       /\ Len(lastRun.events) = N
       /\ (lastRun.log # <<>> /\ ~lastRun.log[1].ok) => Len(lastRun.log) = 1
       /\ FailedAreaIsEmpty(lastRun.failed, lastRun.crawl, lastRun.events)

\* a finished run whose first area failed at its first fetch and whose second
\* area was crawled over two pages
C4_Witness ==
  /\ lastRun.completed
  /\ lastRun.failed = {1}
  /\ Len(lastRun.log) >= 2
  /\ lastRun.raw # <<>>

RECURSIVE ListingsOfOkPages(_)
ListingsOfOkPages(log) ==
  IF log = <<>> THEN <<>>
  ELSE (IF Head(log).ok THEN Head(log).listings ELSE <<>>) \o ListingsOfOkPages(Tail(log))

PagesInOrder(log) == \A k \in DOMAIN log : log[k].page = k

\* C5: a failed fetch of a page after the first contributes nothing and stops
\* nothing: the pages of an area are fetched in order up to totalPages, and what
\* the area returns is the listings of the pages whose fetch succeeded, in page
\* order.
C5_LaterPageFailure ==
  /\ \A r \in DOMAIN runs :
       LET u == runs[r]
       IN /\ PagesInOrder(u.log)
          /\ u.areaListings = ListingsOfOkPages(u.log)
          /\ \A k \in DOMAIN u.log :
               (k >= 2 /\ ~u.log[k].ok /\ k < u.totalPages)
                 => Len(u.log) > k \/ u.pc \in {"fetch", "pageDelay"}
          /\ u.pc = "areaDelay" =>
               /\ u.log[1].ok => Len(u.log) = Max(1, u.totalPages)
               /\ Contribution(u.allListings, u.i + 1) = ListingsOfOkPages(u.log)
  /\ lastRun.completed =>
       /\ PagesInOrder(lastRun.log)
       /\ lastRun.log[1].ok => Len(lastRun.log) = Max(1, lastRun.totalPages)
       /\ Contribution(lastRun.crawl, N) = ListingsOfOkPages(lastRun.log)

\* the last area of a finished run: page 2 failed, pages 1 and 3 gave listings
C5_Witness ==
  /\ lastRun.completed
  /\ Len(lastRun.log) = 3
  /\ ~lastRun.log[2].ok
  /\ lastRun.log[1].listings # <<>>
  /\ lastRun.log[3].ok /\ lastRun.log[3].listings # <<>>
  /\ Len(Contribution(lastRun.crawl, N)) = 2

\* C7: when a run completes, newIds is the set of the non-empty ids of the final
\* listing set that knownIds did not hold before the run, and knownIds grows by
\* exactly those; knownIds never shrinks and no id is reported new twice.
C7_NewIds ==
  [][/\ knownIds \subseteq knownIds'
     /\ lastRun'.completed =>
          /\ newIds' = IdsIn(lastRun'.raw) \ lastRun'.knownBefore
          /\ knownIds' = lastRun'.knownBefore \cup newIds'
          /\ newIds' \cap lastRun'.reportedBefore = {}]_vars

\* the third run has ended: it found a known id again and a new one
C7_Witness ==
  /\ lastRun.completed
  /\ lastRun.n = 3
  /\ "a" \in lastRun.knownBefore /\ "a" \in IdsIn(lastRun.raw)
  /\ newIds = {"b"}

(***************************************************************************)
(* Properties of rateListings (specification SpecRate)                     *)
(***************************************************************************)
Rated == rpc = "rated"

\* price is a number above zero, written without the operators of the model
UsablePrice(l) == l.price # <<>> /\ l.price[1] > 0

HasPerSqm(l) == l.pricePerSqm # <<>> /\ l.pricePerSqm[1] # 0

HasPrice(l) == l.price # <<>> /\ l.price[1] # 0

SomeUsablePrice == \E k \in DOMAIN rin : UsablePrice(rin[k])

\* the position in the argument of the listing with this id
PosIn(id) == CHOOSE k \in DOMAIN rin : rin[k].id = id

\* the result holds the listings of the argument, each once, with its fields kept
IsPermutationOfInput ==
  /\ Len(rout) = Len(rin)
  /\ \A k \in DOMAIN rin : \E j \in DOMAIN rout :
       /\ rout[j].id = rin[k].id
       /\ \A f \in DOMAIN rin[k] : rout[j][f] = rin[k][f]

\* C6: every listing rateListings returns has an integer rating from 1 to 10 and
\* the label MUST BUY exactly when the rating is 9 or 10, the empty label otherwise.
C6_RatingBounds ==
  Rated => \A k \in DOMAIN rout :
             /\ rout[k].rating \in 1..10
             /\ rout[k].label = "MUST BUY" <=> rout[k].rating >= 9
             /\ rout[k].label \in {"", "MUST BUY"}

\* a listing on the per-m2 ladder that got both bonuses, capped at 10, beside one
\* rated without any usable figure and one rated by total price
C6_Witness ==
  /\ Rated
  /\ \E k \in DOMAIN rout : rout[k].rating = 10 /\ Len(rout[k].ratingReason) = 3
  /\ \E k \in DOMAIN rout : rout[k].rating < 9 /\ rout[k].label = ""

\* C8: an empty argument gives an empty result; when no listing has a price above
\* zero, every listing comes back in its place with rating 5, the empty label and
\* the no-data reason, and no statistic (medianPPS) is attached.
C8_NoUsablePrice ==
  Rated =>
    /\ rin = <<>> => rout = <<>>
    /\ (rin # <<>> /\ ~SomeUsablePrice) =>
         /\ Len(rout) = Len(rin)
         /\ \A k \in DOMAIN rin :
              /\ \A f \in DOMAIN rin[k] : rout[k][f] = rin[k][f]
              /\ rout[k].rating = 5
              /\ rout[k].label = ""
              /\ rout[k].ratingReason = <<"No price data available for comparison">>
              /\ "medianPPS" \notin DOMAIN rout[k]

\* three listings, one with a negative price, one with price zero, one with a
\* positive pricePerSqm, none with a usable price
C8_Witness ==
  /\ Rated
  /\ Len(rin) = 3
  /\ ~SomeUsablePrice
  /\ \E k \in DOMAIN rin : rin[k].price = <<-100>>
  /\ \E k \in DOMAIN rin : rin[k].price = <<0>>
  /\ \E k \in DOMAIN rin : rin[k].pricePerSqm = <<5>>
  /\ Len(rout) = 3

AllHavePerSqm == rin # <<>> /\ \A k \in DOMAIN rin : rin[k].pricePerSqm # <<>> /\ rin[k].pricePerSqm[1] > 0

\* pricePerSqm of l is exactly num/den times the global median
AtMedianTimes(l, num, den) == den * l.pricePerSqm[1] * Scale = num * MedianPPS(rin)[1]

\* the number of bonuses of rater.js:92-99 and :115-121 l qualifies for
BonusesOf(l) ==
  (IF 10 * l.pricePerSqm[1] * Scale <= 6 * neighborhoodMedian(rin, l.neighborhood)[1]
   THEN 1 ELSE 0)
  + (IF l.landSqm # <<>> /\ l.landSqm[1] > 500 /\ HasPrice(l)
        /\ l.price[1] < 100 * l.landSqm[1]
     THEN 1 ELSE 0)

\* C9 as claimed: when every listing has a positive pricePerSqm, a listing at
\* exactly 0.4 times the global median is rated 10 and one at exactly the median 6.
C9_AsClaimed ==
  (Rated /\ AllHavePerSqm) =>
    \A k \in DOMAIN rout :
      /\ AtMedianTimes(rout[k], 4, 10) => rout[k].rating = 10
      /\ AtMedianTimes(rout[k], 1, 1) => rout[k].rating = 6

\* C9 as amended: when every listing has a positive pricePerSqm and some listing
\* has a price above zero, a listing at exactly 0.4 times the global median is
\* rated 10 and one at exactly the median is rated 6 plus one for each bonus it
\* qualifies for (area bonus, land bonus); when no listing has a price above zero
\* every listing is rated 5.
C9_LadderAtMedian ==
  (Rated /\ AllHavePerSqm) =>
    IF SomeUsablePrice
    THEN \A k \in DOMAIN rout :
           /\ AtMedianTimes(rout[k], 4, 10) => rout[k].rating = 10
           /\ AtMedianTimes(rout[k], 1, 1) => rout[k].rating = 6 + BonusesOf(rout[k])
    ELSE \A k \in DOMAIN rout : rout[k].rating = 5

\* one listing at 0.4 times the median rated 10, one at the median rated 6 and
\* one at the median with a bonus rated 7
C9_Witness ==
  /\ Rated /\ AllHavePerSqm /\ SomeUsablePrice
  /\ \E k \in DOMAIN rout : AtMedianTimes(rout[k], 4, 10) /\ rout[k].rating = 10
  /\ \E k \in DOMAIN rout : AtMedianTimes(rout[k], 1, 1) /\ rout[k].rating = 6
  /\ \E k \in DOMAIN rout : AtMedianTimes(rout[k], 1, 1) /\ rout[k].rating = 7

\* the listings of the result with rating v, in the order of the result
Group(v) == SelectSeq(rout, LAMBDA l : l.rating = v)

AscendingBy(s, Key(_)) == \A j, k \in DOMAIN s : j < k => Key(s[j]) <= Key(s[k])

PerSqmOf(l) == l.pricePerSqm[1]

PriceOf(l) == l.price[1]

PosOut(k) == CHOOSE j \in DOMAIN rout : rout[j].id = rin[k].id

\* C11 as claimed: two listings of the argument that get equal rating and have
\* equal pricePerSqm and equal price (or both lack them) stand in the result in
\* the order they stand in the argument.
C11_AsClaimed ==
  Rated =>
    \A j, k \in DOMAIN rin :
      (/\ j < k
       /\ rout[PosOut(j)].rating = rout[PosOut(k)].rating
       /\ rin[j].pricePerSqm = rin[k].pricePerSqm
       /\ rin[j].price = rin[k].price)
        => PosOut(j) < PosOut(k)

(***************************************************************************)
(* Further properties of the crawl (specification Spec)                    *)
(***************************************************************************)
Idempotent(S) == deduplicate(deduplicate(S)) = deduplicate(S)

\* the listing sequences a state holds: what each run in flight has collected,
\* with and without the listings of its current area, and the crawl of the run
\* that ended last
CollectedSequences ==
  {runs[r].allListings : r \in DOMAIN runs}
    \cup {runs[r].areaListings : r \in DOMAIN runs}
    \cup {Concat(runs[r].allListings, runs[r].areaListings) : r \in DOMAIN runs}
    \cup {lastRun.crawl}

\* C12: deduplicate(deduplicate(S)) = deduplicate(S), element for element, for
\* every listing sequence S the crawl collects (with repeated and with empty ids),
\* and the result of a completed run is the listing sequence its last progress
\* event carried.
C12_DedupIdempotent ==
  /\ \A S \in CollectedSequences : Idempotent(S)
  /\ lastRun.completed =>
       /\ lastRun.raw = deduplicate(lastRun.crawl)
       /\ lastRun.raw = lastRun.events[Len(lastRun.events)].listings

\* a completed run that collected the same id twice and another that collected
\* an empty id: deduplicate shortened the sequence
C12_Witness ==
  /\ lastRun.completed
  /\ Len(lastRun.crawl) = 2
  /\ Len(lastRun.raw) = 1
  /\ lastRun.events[Len(lastRun.events)].listings = lastRun.raw
  /\ \/ lastRun.crawl[1].id = lastRun.crawl[2].id
     \/ lastRun.crawl[2].id = ""

\* the runs suspended at await fetchPage(...)
InFlight == {r \in DOMAIN runs : runs[r].pc = "fetch"}

\* C13: at most one page fetch is in flight; while a fetch of page p of area k is
\* in flight the fetches of pages 1..p-1 of that area have all settled, in that
\* order, and the crawl of every earlier area has finished (its progress event
\* was emitted).
C13_SequentialFetch ==
  /\ Cardinality(InFlight) <= 1
  /\ \A r \in InFlight :
       /\ Len(runs[r].log) = runs[r].page - 1
       /\ \A k \in DOMAIN runs[r].log : runs[r].log[k].page = k
       /\ Len(runs[r].events) = runs[r].i
       /\ \A k \in DOMAIN runs[r].events : runs[r].events[k].current = k

\* the fetch of page 3 of the second area is in flight in the second run, while
\* a timer tick or a request has just been turned away
C13_Witness ==
  /\ Cardinality(InFlight) = 1
  /\ \E r \in InFlight :
       /\ runs[r].n = 2
       /\ runs[r].i = 1
       /\ runs[r].page = 3
       /\ Len(runs[r].log) = 2
  /\ response = "already_scraping"

\* C14 as claimed: every fetch of a page 2, 3, ... of an area is issued after the
\* 800 ms delay has elapsed since the previous fetch of that area, the fetch of
\* page 2 included, and the first fetch of every area but the first is issued
\* after the 500 ms delay.
C14_AsClaimed ==
  \A r \in DOMAIN runs :
    /\ (runs[r].pc = "fetch" /\ runs[r].page >= 2) => PageDelayMs \in Range(runs[r].gap)
    /\ (runs[r].pc = "fetch" /\ runs[r].page = 1 /\ runs[r].i >= 1)
         => AreaDelayMs \in Range(runs[r].gap)

(***************************************************************************)
(* Properties of percentile (specification SpecPercentile)                 *)
(***************************************************************************)
Computed == rpc = "computed"

\* C15: for a non-empty ascending sequence, percentile(x, 0) is the first element,
\* percentile(x, 100) the last, percentile(x, 50) the middle element when the
\* length is odd, and for every p in 0..100 the result lies between the first and
\* the last element.
C15_Percentile ==
  (Computed /\ sorted # <<>>) =>
    LET n == Len(sorted)
    IN /\ p = 0 => pval = Scale * sorted[1]
       /\ p = 100 => pval = Scale * sorted[n]
       /\ (p = 50 /\ n % 2 = 1) => pval = Scale * sorted[(n + 1) \div 2]
       /\ Scale * sorted[1] <= pval
       /\ pval <= Scale * sorted[n]

\* the 75th percentile of four distinct numbers, strictly between the third and
\* the fourth
C15_Witness ==
  /\ Computed
  /\ Len(sorted) = 4
  /\ p = 75
  /\ sorted[3] < sorted[4]
  /\ Scale * sorted[3] < pval
  /\ pval < Scale * sorted[4]

(***************************************************************************)
(* Properties of the page count and of the fetches of an area (Spec)       *)
(***************************************************************************)
\* C16 as claimed: the count getTotalPages returns for the first page of an area,
\* from the embedded "TotalPages" or from the pagination fallback, is at least 1.
C16_AsClaimed ==
  /\ \A r \in DOMAIN runs : runs[r].totalPages >= 1
  /\ lastRun.totalPages >= 1

(***************************************************************************)
(* Properties of the scoring paths (specification SpecRate)                *)
(***************************************************************************)
\* x / m <= t / 100, for m > 0 given as Scale times its value
AtMost(x, m, t) == 100 * Scale * x <= t * m

\* the ten steps on pricePerSqm / medianPPS as the spec lists them
TenSteps(x, m) ==
  IF AtMost(x, m, 40) THEN 10 ELSE IF AtMost(x, m, 55) THEN 9
  ELSE IF AtMost(x, m, 70) THEN 8 ELSE IF AtMost(x, m, 85) THEN 7
  ELSE IF AtMost(x, m, 100) THEN 6 ELSE IF AtMost(x, m, 115) THEN 5
  ELSE IF AtMost(x, m, 130) THEN 4 ELSE IF AtMost(x, m, 150) THEN 3
  ELSE IF AtMost(x, m, 180) THEN 2 ELSE 1

\* the six tiers on price / medianPrice as the spec lists them
SixTiers(x, m) ==
  IF AtMost(x, m, 50) THEN 8 ELSE IF AtMost(x, m, 75) THEN 7
  ELSE IF AtMost(x, m, 100) THEN 6 ELSE IF AtMost(x, m, 125) THEN 5
  ELSE IF AtMost(x, m, 150) THEN 4 ELSE 3

HasPositivePerSqm(l) == l.pricePerSqm # <<>> /\ l.pricePerSqm[1] > 0

\* A of C17: pricePerSqm <= 0.6 x the median pricePerSqm of the listing's area
AreaTerm(l) ==
  IF AtMost(l.pricePerSqm[1], neighborhoodMedian(rin, l.neighborhood)[1], 60) THEN 1 ELSE 0

\* B of C17 and C18: landSqm > 500, a usable price, price / landSqm < 100
LandTerm(l) ==
  IF l.landSqm # <<>> /\ l.landSqm[1] > 500 /\ UsablePrice(l)
     /\ l.price[1] < 100 * l.landSqm[1]
  THEN 1 ELSE 0

\* C17 as claimed: a listing with a positive pricePerSqm, in a set whose global
\* median is computed, is rated min(10, L + A + B): L the ten-step ladder value,
\* A = 1 for the area bonus, B = 1 when landSqm > 500, the price is known (a
\* usable price: present and above zero) and price / landSqm < 100.
C17_AsClaimed ==
  (Rated /\ SomeUsablePrice) =>
    \A k \in DOMAIN rout :
      HasPositivePerSqm(rout[k]) =>
        rout[k].rating =
          Min(10, TenSteps(rout[k].pricePerSqm[1], MedianPPS(rin)[1])
                    + AreaTerm(rout[k]) + LandTerm(rout[k]))

\* the listings C18 is about: no usable pricePerSqm, a usable price
ByTotalPrice(l) == ~HasPositivePerSqm(l) /\ UsablePrice(l)

\* C18: a listing with no usable pricePerSqm and a usable price, in a set where
\* some listing has a positive price, is scored by the six tiers on
\* price / medianPrice: its score before the land bonus is in 3..8, it does not get
\* the area bonus, its rating is at most 9, and 9 with the MUST BUY label only
\* when the land bonus applies.
C18_TotalPriceFallback ==
  (Rated /\ SomeUsablePrice) =>
    \A k \in DOMAIN rout :
      ByTotalPrice(rout[k]) =>
        LET l    == rout[k]
            base == SixTiers(l.price[1], MedianPrice(rin)[1])
        IN /\ base \in 3..8
           /\ l.rating = base + LandTerm(l)
           /\ l.rating <= 9
           /\ l.rating = 9 => (LandTerm(l) = 1 /\ l.label = "MUST BUY")
           /\ l.ratingReason[1] = "Rated by total price (no m2 data)"
           /\ \A j \in DOMAIN l.ratingReason : l.ratingReason[j] # "Best price in area"

\* a listing rated by total price at half the median price and with a large plot
\* is rated 9, another at the median price is rated 6
C18_Witness ==
  /\ Rated /\ SomeUsablePrice
  /\ \E k \in DOMAIN rout :
       /\ ByTotalPrice(rout[k])
       /\ rout[k].rating = 9
       /\ rout[k].label = "MUST BUY"
       /\ Len(rout[k].ratingReason) = 2
  /\ \E k \in DOMAIN rout :
       /\ ByTotalPrice(rout[k])
       /\ rout[k].rating = 6
       /\ Len(rout[k].ratingReason) = 1

\* C19 as claimed: a listing whose price is zero or negative and that has no
\* usable pricePerSqm, in a set where other listings have positive prices, is
\* rated like the same listing without a price: rating 5, the insufficient-data
\* reason, no land bonus.
C19_AsClaimed ==
  (Rated /\ SomeUsablePrice) =>
    \A k \in DOMAIN rout :
      (/\ ~HasPositivePerSqm(rout[k])
       /\ rout[k].price # <<>>
       /\ rout[k].price[1] <= 0)
        => /\ rout[k].rating = 5
           /\ rout[k].label = ""
           /\ rout[k].ratingReason = <<"Insufficient price data">>

(***************************************************************************)
(* The fetches of one area (specification Spec)                            *)
(***************************************************************************)
\* the fetches of an area whose crawl is over: log, with the page count the run
\* held at the end
FetchesOfArea(log, totalPages) ==
  /\ Len(log) >= 1
  /\ \A k \in DOMAIN log : log[k].page = k
  /\ IF log[1].ok
     THEN Len(log) = (IF totalPages >= 2 THEN totalPages ELSE 1)
     ELSE Len(log) = 1

\* C20: the first page of an area is fetched; when that succeeds and the page
\* declares N pages, the pages 2..N follow, in ascending order and each once,
\* whether their fetches succeed or fail, and none when N = 1; when the first
\* fetch fails it is the area's only fetch.  The page count is set by the first
\* page and no later page changes it.
C20_FetchesOfArea ==
  [][
      /\ \A r \in DOMAIN runs' :
           runs'[r].pc = "areaDelay" => FetchesOfArea(runs'[r].log, runs'[r].totalPages)
      /\ lastRun'.completed => FetchesOfArea(lastRun'.log, lastRun'.totalPages)
      /\ \A r \in DOMAIN runs \cap DOMAIN runs' :
           (/\ runs'[r].n = runs[r].n
            /\ runs'[r].i = runs[r].i
            /\ Len(runs[r].log) >= 1)
             => runs'[r].totalPages = runs[r].totalPages
    ]_vars

\* an area of three declared pages is done: three fetches, the second failed and
\* was neither repeated nor did it end the area
C20_Witness ==
  \E r \in DOMAIN runs :
    /\ runs[r].pc = "areaDelay"
    /\ runs[r].totalPages = 3
    /\ Len(runs[r].log) = 3
    /\ runs[r].log[1].ok
    /\ ~runs[r].log[2].ok
    /\ runs[r].log[3].ok

(***************************************************************************)
(* Termination of a run (specification SpecLive)                           *)
(***************************************************************************)
RunInFlight(n) == \E r \in DOMAIN runs : runs[r].n = n

Idle == ~scraping /\ scrapeProgress.current = 0 /\ scrapeProgress.currentName = ""

\* C21: every started run eventually ends with the run-in-progress flag cleared
\* and the progress snapshot back at current = 0 with an empty name, whatever
\* fetches fail and also when an error is raised; a start request handled while
\* no run is in progress is accepted; whenever no run is in progress the
\* snapshot has current = 0, and during a run 0 <= current <= total.
C21_RunEnds ==
  /\ \A n \in 1..MaxRuns : RunInFlight(n) ~> (lastRun.n = n /\ Idle)
  /\ [](~scraping => Idle)
  /\ [](scraping => (scrapeProgress.current \in 0..scrapeProgress.total /\ runs # <<>>))
  /\ [][(~scraping /\ ApiScrape) => (response' = "started" /\ scraping')]_vars

\* the first run has ended by an error, after the first page of the first area
\* and a later page of the second area had failed; the flag is cleared and the
\* snapshot is back at current = 0
C21_Witness ==
  /\ Idle
  /\ lastRun.n = 1
  /\ ~lastRun.completed
  /\ 1 \in lastRun.failed
  /\ Len(lastRun.events) = 1
  /\ \E k \in DOMAIN lastRun.log : lastRun.log[k].page >= 2 /\ ~lastRun.log[k].ok

(***************************************************************************)
(* The listing sets of the progress events (specification Spec)            *)
(***************************************************************************)
IsPrefix(s, t) == Len(s) <= Len(t) /\ s = SubSeq(t, 1, Len(s))

\* the progress events a state holds: those of each run in flight and those of
\* the run that ended last
EventLogs == {runs[r].events : r \in DOMAIN runs} \cup {lastRun.events}

\* C22: within a run the listing set of each progress event is a prefix (same
\* listings, same order) of the set of the next event; the result of scrapeAll is
\* the set of the last event; after a successful run the published listing set
\* is rateListings of that result.
C22_EventsGrow ==
  /\ \A events \in EventLogs :
       \A k \in 1..(Len(events) - 1) : IsPrefix(events[k].listings, events[k + 1].listings)
  /\ lastRun.completed =>
       /\ lastRun.raw = lastRun.events[Len(lastRun.events)].listings
       /\ listings = rateListings(lastRun.raw)

\* a successful run whose first event carried one listing and whose second
\* carried that listing followed by one of the second area
C22_Witness ==
  /\ lastRun.completed
  /\ Len(lastRun.events) = 2
  /\ Len(lastRun.events[1].listings) = 1
  /\ Len(lastRun.events[2].listings) = 2
  /\ lastRun.events[1].listings[1] = lastRun.events[2].listings[1]
  /\ Len(listings) = 2

NoEmptyId(ls) == \A k \in DOMAIN ls : ls[k].id # ""

\* C23: a listing with an empty id is in the listing set of no progress event,
\* not in the result of scrapeAll, not in the published listing set and its id
\* in neither newIds nor knownIds; an event carries the listing set, current,
\* total and currentName and no count of dropped listings.
C23_NoEmptyId ==
  /\ \A events \in EventLogs :
       \A k \in DOMAIN events :
         /\ NoEmptyId(events[k].listings)
         /\ DOMAIN events[k] = {"current", "total", "currentName", "listings"}
  /\ NoEmptyId(lastRun.raw)
  /\ NoEmptyId(listings)
  /\ "" \notin newIds \cup knownIds

\* a successful run collected a listing with an empty id and one with an id: the
\* result and the published set hold the second only
C23_Witness ==
  /\ lastRun.completed
  /\ Len(lastRun.crawl) = 2
  /\ \E k \in DOMAIN lastRun.crawl : lastRun.crawl[k].id = ""
  /\ Len(lastRun.raw) = 1
  /\ Len(listings) = 1
  /\ newIds # {}

====
